---------------------------- MODULE Spec2Model ----------------------------
(***************************************************************************)
(* Model of the ESEP self-employment hub front end:                        *)
(*   - CategoriesPage (public category listing: fetch, priority re-sort,   *)
(*     loading / error / list display, discount display);                  *)
(*   - PanchayathsManagement (admin list + create / update / delete +      *)
(*     realtime invalidation), with the backend table it talks to.         *)
(* Strings of the program are kept as strings; the backend's text          *)
(* ordering is given by explicit ascending lists of the candidate values.  *)
(***************************************************************************)
EXTENDS Integers, Sequences, FiniteSets, Bags, TLC

VARIABLES
  \* ---- CategoriesPage (useQuery ['categories']) ----
  catTable,      \* backend: names of the categories with is_active = true
  catResp,       \* rows the backend returned to the running / last queryFn
  categories,    \* query data: [defined, rows]
  catStatus,     \* "pending" | "success" | "error"
  catFetch,      \* "idle" | "sent" | "read"
  \* ---- discount display of one rendered card ----
  actual_fee, offer_fee, discountShown,
  \* ---- PanchayathsManagement: grouping reduce over a fetched list ----
  grpInput, grpAcc, grpPos,
  \* ---- PanchayathsManagement: props and component state ----
  permissions,        \* [canWrite, canDelete]
  mounted,            \* the component is on screen
  isDialogOpen, editingPanchayath, formData,
  openedWith,         \* history: how the dialog on screen was opened, [by, row]
  toast,              \* title of the notification the last step raised, "" if none
  \* ---- the backend ----
  table,              \* rows of public.panchayaths: [id, name, district]
  nextId,             \* id the next inserted row gets
  referenced,         \* ids that a registration row refers to
  remoteOps,          \* changes made by other clients so far
  \* ---- query cache entry ['admin-panchayaths'] ----
  panchayaths,        \* query data: [defined, rows]
  qStatus,            \* "pending" | "success" | "error"
  qFetch,             \* "idle" | "sent" | "read"
  qResp,              \* rows the backend returned to the running queryFn
  qInvalidated,
  \* ---- requests and events in flight ----
  saves,              \* bag of save mutations
  deletes,            \* bag of delete mutations
  notif,              \* postgres_changes events not yet delivered
  \* ---- history ----
  unseen,             \* a change was made while no channel was subscribed
                      \* and no select has run since
  lastSaved           \* form data of the save that succeeded last, kept while
                      \* nothing but re-fetching has happened since

catVars == <<catTable, catResp, categories, catStatus, catFetch>>
feeVars == <<actual_fee, offer_fee, discountShown>>
grpVars == <<grpInput, grpAcc, grpPos>>
compVars == <<permissions, mounted, isDialogOpen, editingPanchayath, formData,
              openedWith>>
backendVars == <<table, nextId, referenced, remoteOps>>
queryVars == <<panchayaths, qStatus, qFetch, qResp, qInvalidated>>
flightVars == <<saves, deletes, notif>>
histVars == <<unseen, lastSaved>>
adminVars == <<compVars, toast, backendVars, queryVars, flightVars, histVars>>
vars == <<catVars, feeVars, grpVars, adminVars>>

\* What an action of one part leaves alone in the other parts.
CatFrame == UNCHANGED <<feeVars, grpVars, adminVars>>
FeeFrame == UNCHANGED <<catVars, grpVars, adminVars>>
GrpFrame == UNCHANGED <<catVars, feeVars, adminVars>>
AdminFrame == UNCHANGED <<catVars, feeVars, grpVars>>

\* A step that raises no notification.
NoToast == toast' = ""

-----------------------------------------------------------------------------
(* Generic sequence helpers *)

\* JavaScript Array.prototype.indexOf: 0-based position of x, -1 when absent.
RECURSIVE IndexFrom(_, _, _)
IndexFrom(s, x, i) ==
  IF i > Len(s) THEN -1
  ELSE IF s[i] = x THEN i - 1
  ELSE IndexFrom(s, x, i + 1)

indexOf(s, x) == IndexFrom(s, x, 1)

Range(s) == {s[i] : i \in 1..Len(s)}

Undefined == [defined |-> FALSE, rows |-> <<>>]
Data(rs) == [defined |-> TRUE, rows |-> rs]

-----------------------------------------------------------------------------
(* CategoriesPage *)

categoryOrder ==
  << "Pennyekart Free Registration", "Pennyekart Paid Registration",
     "Farmelife", "Organelife", "Foodelife", "Entrelife", "Job Card" >>

Sentinel == 999

\* Candidate category names, in the backend's ascending name order
\* (.order('name')): four of the known names and two unknown ones.
NameOrder ==
  << "Agrilife", "Entrelife", "Farmelife", "Job Card",
     "Pennyekart Free Registration", "Zedlife" >>

CatNames == Range(NameOrder)

\* The backend's answer: the active rows ordered by name.
CatSelect(active) ==
  SelectSeq([i \in 1..Len(NameOrder) |-> [name |-> NameOrder[i]]],
            LAMBDA c : c.name \in active)

\* A comparator without the sentinel for unknown names.
CompareRaw(a, b) == indexOf(categoryOrder, a.name) - indexOf(categoryOrder, b.name)

\* The comparator handed to sort().
Compare(a, b) ==
  LET aIndex == indexOf(categoryOrder, a.name)
      bIndex == indexOf(categoryOrder, b.name)
  IN  (IF aIndex = -1 THEN Sentinel ELSE aIndex)
      - (IF bIndex = -1 THEN Sentinel ELSE bIndex)

\* Array.prototype.sort is stable: x goes after every element that does not
\* compare greater than it.
RECURSIVE InsertStable(_, _)
InsertStable(sorted, x) ==
  IF sorted = <<>> THEN <<x>>
  ELSE LET last == sorted[Len(sorted)]
       IN  IF Compare(last, x) <= 0 THEN Append(sorted, x)
           ELSE Append(InsertStable(SubSeq(sorted, 1, Len(sorted) - 1), x), last)

RECURSIVE SortFrom(_, _, _)
SortFrom(s, i, acc) ==
  IF i > Len(s) THEN acc ELSE SortFrom(s, i + 1, InsertStable(acc, s[i]))

JsSort(s) == SortFrom(s, 1, <<>>)

CatInit ==
  /\ catTable = {}
  /\ catResp = <<>>
  /\ categories = Undefined
  /\ catStatus = "pending"
  /\ catFetch = "sent"

\* An admin activates (or creates) a category.
CatActivate(n) ==
  /\ CatFrame
  /\ n \notin catTable
  /\ catTable' = catTable \cup {n}
  /\ UNCHANGED <<catResp, categories, catStatus, catFetch>>

\* An admin deactivates (or deletes) a category.
CatDeactivate(n) ==
  /\ CatFrame
  /\ n \in catTable
  /\ catTable' = catTable \ {n}
  /\ UNCHANGED <<catResp, categories, catStatus, catFetch>>

\* The backend evaluates the select of a running queryFn.
CatFetchRead ==
  /\ CatFrame
  /\ catFetch = "sent"
  /\ catResp' = CatSelect(catTable)
  /\ catFetch' = "read"
  /\ UNCHANGED <<catTable, categories, catStatus>>

\* queryFn returns the re-sorted rows.
CatFetchSuccess ==
  /\ CatFrame
  /\ catFetch = "read"
  /\ categories' = Data(JsSort(catResp))
  /\ catStatus' = "success"
  /\ catFetch' = "idle"
  /\ UNCHANGED <<catTable, catResp>>

\* queryFn throws the backend's error; earlier data stays in the cache.
CatFetchError ==
  /\ CatFrame
  /\ catFetch = "sent"
  /\ catStatus' = "error"
  /\ catFetch' = "idle"
  /\ UNCHANGED <<catTable, catResp, categories>>

\* The query client runs the query again (remount, window focus); a query
\* that never got data shows as pending again.
CatRefetch ==
  /\ CatFrame
  /\ catFetch = "idle"
  /\ catFetch' = "sent"
  /\ catStatus' = IF categories.defined THEN catStatus ELSE "pending"
  /\ UNCHANGED <<catTable, catResp, categories>>

catIsLoading == catStatus = "pending"
catError == catStatus = "error"

\* What CategoriesPage renders.
CatDisplay ==
  IF catIsLoading THEN [kind |-> "loading", rows |-> <<>>, empty |-> FALSE]
  ELSE IF catError THEN [kind |-> "error", rows |-> <<>>, empty |-> FALSE]
  ELSE [kind |-> "list",
        rows |-> IF categories.defined THEN categories.rows ELSE <<>>,
        empty |-> (~categories.defined \/ Len(categories.rows) = 0)]

CatNext ==
  \/ \E n \in CatNames : CatActivate(n)
  \/ \E n \in CatNames : CatDeactivate(n)
  \/ CatFetchRead
  \/ CatFetchSuccess
  \/ CatFetchError
  \/ CatRefetch

-----------------------------------------------------------------------------
(* Discount display *)

MaxFee == 100

\* Math.round: the nearest integer, halves towards +infinity, of num / den.
MathRound(num, den) == (2 * num + den) \div (2 * den)

\* Rounding that drops the fraction instead.
DiscountFloor(a, o) == IF a > 0 THEN ((a - o) * 100) \div a ELSE 0

\* {actual_fee > 0 ? Math.round(((actual_fee - offer_fee) / actual_fee) * 100) : 0}
DiscountPercent(a, o) == IF a > 0 THEN MathRound((a - o) * 100, a) ELSE 0

FeeInit ==
  /\ actual_fee \in 0..MaxFee
  /\ offer_fee \in 0..MaxFee
  /\ discountShown = [shown |-> FALSE, pct |-> 0]

\* The card of the category is rendered.
RenderDiscount ==
  /\ FeeFrame
  /\ ~discountShown.shown
  /\ discountShown' = [shown |-> TRUE,
                       pct |-> DiscountPercent(actual_fee, offer_fee)]
  /\ UNCHANGED <<actual_fee, offer_fee>>

\* A re-fetch brings the category with a fee stepped by one; the card is
\* rendered again afterwards.
FeeChanged ==
  /\ FeeFrame
  /\ discountShown.shown
  /\ \E a \in {actual_fee - 1, actual_fee, actual_fee + 1} \cap (0..MaxFee),
        o \in {offer_fee - 1, offer_fee, offer_fee + 1} \cap (0..MaxFee) :
       /\ <<a, o>> # <<actual_fee, offer_fee>>
       /\ actual_fee' = a
       /\ offer_fee' = o
  /\ discountShown' = [shown |-> FALSE, pct |-> 0]

FeeNext == RenderDiscount \/ FeeChanged

-----------------------------------------------------------------------------
(* PanchayathsManagement: grouping by district *)

\* Candidate districts in the backend's ascending text order
\* (.order('district')), and candidate names in ascending order.
DistrictOrder == << "10", "9", "Idukki", "Wayanad" >>
PNameOrder == << "A", "B", "C" >>

GrpDistricts == Range(DistrictOrder)
GrpNames == Range(PNameOrder)

DistrictRank(d) == indexOf(DistrictOrder, d)
PNameRank(n) == indexOf(PNameOrder, n)

\* Row a is not after row b in the order "district, then name".
RowLeq(a, b) ==
  \/ DistrictRank(a.district) < DistrictRank(b.district)
  \/ /\ a.district = b.district
     /\ PNameRank(a.name) <= PNameRank(b.name)

OrderedByDistrictName(s) ==
  \A i \in 1..Len(s) : \A j \in 1..Len(s) : i < j => RowLeq(s[i], s[j])

\* A property key that is a canonical array index ("9", "10") and its
\* numeric value: such keys enumerate first, in ascending numeric order.
IsArrayIndex(k) == k \in {"9", "10"}
ArrayIndex(k) == IF k = "9" THEN 9 ELSE 10

\* The accumulator object of reduce: entries [district, rows] in the order
\* their keys were created.
AccHas(acc, d) == \E i \in 1..Len(acc) : acc[i].district = d

\* One call of the reduce callback.
GroupStep(acc, p) ==
  LET acc1 == IF ~AccHas(acc, p.district)
              THEN Append(acc, [district |-> p.district, rows |-> <<>>])
              ELSE acc
  IN  [i \in 1..Len(acc1) |->
         IF acc1[i].district = p.district
         THEN [acc1[i] EXCEPT !.rows = Append(@, p)]
         ELSE acc1[i]]

RECURSIVE GroupFrom(_, _, _)
GroupFrom(s, i, acc) ==
  IF i > Len(s) THEN acc ELSE GroupFrom(s, i + 1, GroupStep(acc, s[i]))

\* panchayaths?.reduce(...) || {}
GroupByDistrict(data) == IF data.defined THEN GroupFrom(data.rows, 1, <<>>) ELSE <<>>

\* Array-index keys in ascending numeric order.
RECURSIVE IndexKeysAscending(_)
IndexKeysAscending(ks) ==
  IF ks = {} THEN <<>>
  ELSE LET m == CHOOSE k \in ks : \A k2 \in ks : ArrayIndex(k) <= ArrayIndex(k2)
       IN  <<m>> \o IndexKeysAscending(ks \ {m})

\* Keys in creation order, whatever they look like.
KeysInsertionOrder(acc) == [i \in 1..Len(acc) |-> acc[i].district]

\* Object.keys: array-index keys ascending, then the others in creation order.
ObjectKeys(acc) ==
  LET all == [i \in 1..Len(acc) |-> acc[i].district]
  IN  IndexKeysAscending({k \in Range(all) : IsArrayIndex(k)})
      \o SelectSeq(all, LAMBDA k : ~IsArrayIndex(k))

AccGet(acc, d) == acc[CHOOSE i \in 1..Len(acc) : acc[i].district = d].rows

\* The rendered groups: Object.keys(...).map(district => rows of district).
GroupDisplay(acc) ==
  LET ks == ObjectKeys(acc)
  IN  [i \in 1..Len(ks) |-> [district |-> ks[i], rows |-> AccGet(acc, ks[i])]]

\* Longest fetched list the grouping is run on.
MaxGroupRows == 3

GrpRow(i, v) == [id |-> i, name |-> v[1], district |-> v[2]]

\* Every list the select can return: rows ordered by district, then name.
GrpInputs ==
  { s \in UNION { [1..n -> [id : 1..MaxGroupRows, name : GrpNames,
                            district : GrpDistricts]] : n \in 0..MaxGroupRows } :
      /\ \A i \in 1..Len(s) : s[i].id = i
      /\ OrderedByDistrictName(s) }

GrpInit ==
  /\ grpInput \in GrpInputs
  /\ grpAcc = <<>>
  /\ grpPos = 0

\* reduce visits the next row.
GrpReduceStep ==
  /\ GrpFrame
  /\ grpPos < Len(grpInput)
  /\ grpAcc' = GroupStep(grpAcc, grpInput[grpPos + 1])
  /\ grpPos' = grpPos + 1
  /\ UNCHANGED grpInput

GrpNext == GrpReduceStep

-----------------------------------------------------------------------------
(* PanchayathsManagement: the component, its query and the backend table *)

\* Values typed into the form's two inputs; the row the table may start
\* with has another name.
FormNames == {"A"}
FormDistricts == {"Idukki"}
FirstRow == [id |-> 1, name |-> "B", district |-> "Idukki"]

\* Rows the backend ever holds, mutations in flight at once, events queued
\* on the channel, and changes made by other clients.
MaxId == 2
MaxInflight == 2
MaxPending == 1
MaxRemote == 1

Null == [id |-> 0, name |-> "", district |-> ""]
EmptyForm == [name |-> "", district |-> ""]

\* The dialog is not on screen.
NotOpen == [by |-> "none", row |-> Null]

\* No save has just succeeded.
NoSave == [name |-> "", district |-> "", dup |-> FALSE]

Ids(t) == {r.id : r \in t}

\* select('*').order('district').order('name'): every order of the rows that
\* is ascending by district, then name (rows that tie come in any order).
Select(t) ==
  { s \in [1..Cardinality(t) -> t] :
      /\ \A i \in 1..Cardinality(t) : \A j \in 1..Cardinality(t) :
           s[i] = s[j] => i = j
      /\ OrderedByDistrictName(s) }

Inflight == BagCardinality(saves) + BagCardinality(deletes)

\* useQuery's isLoading: no data yet and a fetch running.
isLoading == ~panchayaths.defined /\ qFetch # "idle"

panchayathsByDistrict == GroupByDistrict(panchayaths)

\* A Dialog element rendered for every administrator.
DialogRenderedAlways == mounted

\* The Dialog element (trigger and form) and the per-row buttons.
DialogRendered == mounted /\ permissions.canWrite
FormShown == DialogRendered /\ isDialogOpen
EditButtonsRendered == mounted /\ permissions.canWrite
DeleteButtonsRendered == mounted /\ permissions.canDelete

\* CategoryForm returns null without the write permission.
CategoryFormRendered == permissions.canWrite

\* The dialog is modal: while its form is shown nothing behind it can be used.
PageUsable == mounted /\ ~FormShown

\* What the admin component renders in its card body; it has no branch for
\* a failed fetch.
AdminDisplay ==
  [ groups  |-> GroupDisplay(panchayathsByDistrict),
    loading |-> isLoading,
    empty   |-> (~isLoading /\ (~panchayaths.defined \/ Len(panchayaths.rows) = 0)),
    error   |-> FALSE ]

\* queryClient.invalidateQueries({ queryKey: ['admin-panchayaths'] }): the
\* entry is marked invalidated; with the component mounted the query is
\* active and is fetched again, a fetch already running being cancelled.
InvalidateQueries ==
  /\ qInvalidated' = TRUE
  /\ IF mounted
     THEN /\ qFetch' = "sent"
          /\ qStatus' = IF panchayaths.defined THEN qStatus ELSE "pending"
          /\ qResp' = <<>>
     ELSE UNCHANGED <<qFetch, qStatus, qResp>>
  /\ UNCHANGED panchayaths

\* A row change on the table reaches the channel of a mounted component; with
\* no channel it goes unnoticed until a select runs.
RowChanged ==
  IF mounted THEN notif' = notif + 1 /\ UNCHANGED unseen
  ELSE unseen' = TRUE /\ UNCHANGED notif

CanChange == mounted => notif < MaxPending

AdminInit ==
  /\ permissions \in [canWrite : BOOLEAN, canDelete : BOOLEAN]
  /\ mounted = TRUE
  /\ isDialogOpen = FALSE
  /\ editingPanchayath = Null
  /\ formData = EmptyForm
  /\ openedWith = NotOpen
  /\ toast = ""
  /\ table \in {{}, {FirstRow}}
  /\ nextId = Cardinality(table) + 1
  /\ referenced \in SUBSET Ids(table)
  /\ remoteOps = 0
  /\ panchayaths = Undefined
  /\ qStatus = "pending"
  /\ qFetch = "sent"
  /\ qResp = <<>>
  /\ qInvalidated = FALSE
  /\ saves = EmptyBag
  /\ deletes = EmptyBag
  /\ notif = 0
  /\ unseen = FALSE
  /\ lastSaved = NoSave

(* ---- the query ---- *)

\* The backend evaluates the select of the running queryFn.
FetchRead ==
  /\ AdminFrame
  /\ NoToast
  /\ qFetch = "sent"
  /\ qResp' \in Select(table)
  /\ qFetch' = "read"
  /\ unseen' = FALSE
  /\ UNCHANGED <<compVars, backendVars, panchayaths, qStatus, qInvalidated,
                 flightVars, lastSaved>>

\* queryFn returns data.
FetchSuccess ==
  /\ AdminFrame
  /\ NoToast
  /\ qFetch = "read"
  /\ panchayaths' = Data(qResp)
  /\ qStatus' = "success"
  /\ qFetch' = "idle"
  /\ qResp' = <<>>
  /\ qInvalidated' = FALSE
  /\ UNCHANGED <<compVars, backendVars, flightVars, histVars>>

\* queryFn throws error; data fetched earlier stays in the cache.
FetchError ==
  /\ AdminFrame
  /\ NoToast
  /\ qFetch = "sent"
  /\ qStatus' = "error"
  /\ qFetch' = "idle"
  /\ UNCHANGED <<compVars, backendVars, panchayaths, qResp, qInvalidated,
                 flightVars, histVars>>

(* ---- realtime subscription ---- *)

\* A callback that drops the event.
RealtimeEventIgnored ==
  /\ AdminFrame
  /\ NoToast
  /\ mounted
  /\ notif > 0
  /\ notif' = notif - 1
  /\ UNCHANGED <<compVars, backendVars, queryVars, saves, deletes, histVars>>

\* The channel's postgres_changes callback.
RealtimeEvent ==
  /\ AdminFrame
  /\ NoToast
  /\ mounted
  /\ notif > 0
  /\ notif' = notif - 1
  /\ InvalidateQueries
  /\ UNCHANGED <<compVars, backendVars, saves, deletes, histVars>>

\* Mutations started by an instance that is gone keep running; the state
\* setters their callbacks hold belong to that instance.
Orphaned(bag) ==
  LET S == BagToSet(bag)
      O == {[r EXCEPT !.orphan = TRUE] : r \in S}
  IN  [o \in O |-> LET from == {r \in S : [r EXCEPT !.orphan = TRUE] = o}
                       n[T \in SUBSET from] ==
                         IF T = {} THEN 0
                         ELSE LET r == CHOOSE r \in T : TRUE
                              IN  bag[r] + n[T \ {r}]
                   IN  n[from]]

\* The effect's cleanup: removeChannel; the component state is discarded.
Unmount ==
  /\ AdminFrame
  /\ lastSaved' = NoSave
  /\ NoToast
  /\ openedWith' = NotOpen
  /\ mounted
  /\ mounted' = FALSE
  /\ isDialogOpen' = FALSE
  /\ editingPanchayath' = Null
  /\ formData' = EmptyForm
  /\ notif' = 0
  /\ saves' = Orphaned(saves)
  /\ deletes' = Orphaned(deletes)
  /\ UNCHANGED <<permissions, backendVars, queryVars, unseen>>

\* A new instance: initial state, channel subscribed, the (stale) query
\* fetched unless a fetch is already running.
Mount ==
  /\ AdminFrame
  /\ lastSaved' = NoSave
  /\ NoToast
  /\ ~mounted
  /\ mounted' = TRUE
  /\ IF qFetch = "idle"
     THEN /\ qFetch' = "sent"
          /\ qStatus' = IF panchayaths.defined THEN qStatus ELSE "pending"
     ELSE UNCHANGED <<qFetch, qStatus>>
  /\ UNCHANGED <<permissions, openedWith, isDialogOpen, editingPanchayath, formData,
                 backendVars, panchayaths, qResp, qInvalidated, flightVars, unseen>>

(* ---- the form ---- *)

resetForm ==
  /\ editingPanchayath' = Null
  /\ formData' = EmptyForm

\* An "Add Panchayath" button whose onClick does not run resetForm.
AddClickedNoReset ==
  /\ AdminFrame
  /\ lastSaved' = NoSave
  /\ NoToast
  /\ openedWith' = [by |-> "add", row |-> Null]
  /\ DialogRendered
  /\ ~isDialogOpen
  /\ isDialogOpen' = TRUE
  /\ UNCHANGED <<permissions, mounted, editingPanchayath, formData,
                 backendVars, queryVars, flightVars, unseen>>

\* "Add Panchayath": onClick runs resetForm, the trigger opens the dialog.
AddClicked ==
  /\ AdminFrame
  /\ lastSaved' = NoSave
  /\ NoToast
  /\ openedWith' = [by |-> "add", row |-> Null]
  /\ DialogRendered
  /\ ~isDialogOpen
  /\ resetForm
  /\ isDialogOpen' = TRUE
  /\ UNCHANGED <<permissions, mounted, backendVars, queryVars,
                 flightVars, unseen>>

handleEdit(panchayath) ==
  /\ AdminFrame
  /\ lastSaved' = NoSave
  /\ NoToast
  /\ openedWith' = [by |-> "edit", row |-> panchayath]
  /\ EditButtonsRendered
  /\ PageUsable
  /\ panchayaths.defined
  /\ panchayath \in Range(panchayaths.rows)
  /\ editingPanchayath' = panchayath
  /\ formData' = [name |-> panchayath.name, district |-> panchayath.district]
  /\ isDialogOpen' = TRUE
  /\ UNCHANGED <<permissions, mounted, backendVars, queryVars,
                 flightVars, unseen>>

\* Cancel, Escape, the close button, a click outside: setIsDialogOpen(false).
CloseDialog ==
  /\ AdminFrame
  /\ lastSaved' = NoSave
  /\ NoToast
  /\ openedWith' = NotOpen
  /\ FormShown
  /\ isDialogOpen' = FALSE
  /\ UNCHANGED <<permissions, mounted, editingPanchayath, formData,
                 backendVars, queryVars, flightVars, unseen>>

NameTyped(v) ==
  /\ AdminFrame
  /\ lastSaved' = NoSave
  /\ NoToast
  /\ FormShown
  /\ v # formData.name
  /\ formData' = [formData EXCEPT !.name = v]
  /\ UNCHANGED <<permissions, openedWith, mounted, isDialogOpen, editingPanchayath,
                 backendVars, queryVars, flightVars, unseen>>

DistrictTyped(v) ==
  /\ AdminFrame
  /\ lastSaved' = NoSave
  /\ NoToast
  /\ FormShown
  /\ v # formData.district
  /\ formData' = [formData EXCEPT !.district = v]
  /\ UNCHANGED <<permissions, openedWith, mounted, isDialogOpen, editingPanchayath,
                 backendVars, queryVars, flightVars, unseen>>

\* A mutationFn that always inserts.
SaveRequestAlwaysInsert ==
  [ kind       |-> "insert",
    id         |-> editingPanchayath.id,
    name       |-> formData.name,
    district   |-> formData.district,
    updated_at |-> "",
    dup        |-> \E row \in table : /\ row.name = formData.name
                                      /\ row.district = formData.district
                                      /\ row.id # editingPanchayath.id,
    phase      |-> "sent",
    orphan     |-> FALSE ]

\* savePanchayathMutation.mutate(formData): mutationFn picks update or insert
\* from editingPanchayath and sends the request. dup is history, not payload:
\* the table already holds another row with this name and district.
\* updated_at is "now" when the payload carries new Date().toISOString() and
\* "" when it carries no such field.
SaveRequest ==
  [ kind       |-> IF editingPanchayath # Null THEN "update" ELSE "insert",
    id         |-> editingPanchayath.id,
    name       |-> formData.name,
    district   |-> formData.district,
    updated_at |-> IF editingPanchayath # Null THEN "now" ELSE "",
    dup        |-> \E row \in table : /\ row.name = formData.name
                                      /\ row.district = formData.district
                                      /\ row.id # editingPanchayath.id,
    phase      |-> "sent",
    orphan     |-> FALSE ]

\* The form's submit event (both inputs are required) and its handler.
handleSubmit ==
  /\ AdminFrame
  /\ NoToast
  /\ FormShown
  /\ formData.name # "" /\ formData.district # ""
  /\ Inflight < MaxInflight
  /\ IF permissions.canWrite
     THEN saves' = saves (+) SetToBag({SaveRequest})
     ELSE UNCHANGED saves
  /\ lastSaved' = NoSave
  /\ UNCHANGED <<compVars, backendVars, queryVars, deletes, notif, unseen>>

DeleteRequest(id, answer) ==
  [id |-> id, confirmed |-> answer, phase |-> "sent", orphan |-> FALSE]

\* A handler that deletes without asking.
handleDeleteNoConfirm(id, answer) ==
  /\ AdminFrame
  /\ NoToast
  /\ DeleteButtonsRendered
  /\ PageUsable
  /\ panchayaths.defined
  /\ id \in Ids(Range(panchayaths.rows))
  /\ Inflight < MaxInflight
  /\ deletes' = deletes (+) SetToBag({DeleteRequest(id, answer)})
  /\ lastSaved' = NoSave
  /\ UNCHANGED <<compVars, backendVars, queryVars, saves, notif, unseen>>

\* The row's delete button; answer is what the user tells window.confirm.
handleDelete(id, answer) ==
  /\ AdminFrame
  /\ NoToast
  /\ DeleteButtonsRendered
  /\ PageUsable
  /\ panchayaths.defined
  /\ id \in Ids(Range(panchayaths.rows))
  /\ Inflight < MaxInflight
  /\ IF permissions.canDelete /\ answer
     THEN deletes' = deletes (+) SetToBag({DeleteRequest(id, answer)})
     ELSE UNCHANGED deletes
  /\ lastSaved' = NoSave
  /\ UNCHANGED <<compVars, backendVars, queryVars, saves, notif, unseen>>

(* ---- the backend ---- *)

Replace(bag, r, r2) == (bag (-) SetToBag({r})) (+) SetToBag({r2})

\* The backend runs an update or an insert and answers without error. An
\* update whose id matches no row changes nothing and is no error.
BackendSave(r) ==
  /\ AdminFrame
  /\ lastSaved' = NoSave
  /\ NoToast
  /\ BagIn(r, saves)
  /\ r.phase = "sent"
  /\ CanChange
  /\ IF r.kind = "update"
     THEN /\ table' = {IF row.id = r.id
                       THEN [row EXCEPT !.name = r.name, !.district = r.district]
                       ELSE row : row \in table}
          /\ UNCHANGED nextId
     ELSE /\ nextId <= MaxId
          /\ table' = table \cup {[id |-> nextId, name |-> r.name,
                                   district |-> r.district]}
          /\ nextId' = nextId + 1
  /\ IF table' # table THEN RowChanged ELSE UNCHANGED <<notif, unseen>>
  /\ saves' = Replace(saves, r, [r EXCEPT !.phase = "ok"])
  /\ UNCHANGED <<compVars, referenced, remoteOps, queryVars, deletes>>

\* The foreign key of registrations: a row that a registration refers to
\* cannot be deleted.
DeleteRejected(id) == id \in referenced

\* The backend runs a delete and answers without error; deleting an id that
\* matches no row is no error.
BackendDelete(r) ==
  /\ AdminFrame
  /\ lastSaved' = NoSave
  /\ NoToast
  /\ BagIn(r, deletes)
  /\ r.phase = "sent"
  /\ ~DeleteRejected(r.id)
  /\ CanChange
  /\ table' = {row \in table : row.id # r.id}
  /\ deletes' = Replace(deletes, r, [r EXCEPT !.phase = "ok"])
  /\ IF table' # table THEN RowChanged ELSE UNCHANGED <<notif, unseen>>
  /\ UNCHANGED <<compVars, nextId, referenced, remoteOps, queryVars, saves>>

\* Another client inserts, renames or deletes a row.
RemoteChange ==
  /\ AdminFrame
  /\ lastSaved' = NoSave
  /\ NoToast
  /\ remoteOps < MaxRemote
  /\ CanChange
  /\ \/ /\ nextId <= MaxId
        /\ \E n \in FormNames, d \in FormDistricts :
             table' = table \cup {[id |-> nextId, name |-> n, district |-> d]}
        /\ nextId' = nextId + 1
     \/ /\ \E row \in table : \E n \in FormNames \ {row.name} :
             table' = (table \ {row}) \cup {[row EXCEPT !.name = n]}
        /\ UNCHANGED nextId
     \/ /\ \E row \in table :
             /\ row.id \notin referenced
             /\ table' = table \ {row}
        /\ UNCHANGED nextId
  /\ remoteOps' = remoteOps + 1
  /\ RowChanged
  /\ UNCHANGED <<compVars, referenced, queryVars, saves, deletes>>

(* ---- mutation callbacks ---- *)

SavedTitle(editing) == IF editing THEN "Panchayath Updated" ELSE "Panchayath Created"

\* An onSuccess that leaves the dialog and the form as they are.
SaveSuccessKeepsDialog(r) ==
  /\ AdminFrame
  /\ BagIn(r, saves)
  /\ r.phase = "ok"
  /\ saves' = saves (-) SetToBag({r})
  /\ InvalidateQueries
  /\ toast' = SavedTitle(r.kind = "update")
  /\ lastSaved' = [name |-> r.name, district |-> r.district, dup |-> r.dup]
  /\ UNCHANGED <<permissions, openedWith, mounted, isDialogOpen, editingPanchayath, formData,
                 backendVars, deletes, notif, unseen>>

\* savePanchayathMutation.onSuccess. The setters act on the instance that
\* started the mutation; the title is read from editingPanchayath of the
\* render whose callback runs (the one that started the mutation, or the
\* latest one of the instance).
SaveSuccess(r) ==
  /\ AdminFrame
  /\ BagIn(r, saves)
  /\ r.phase = "ok"
  /\ saves' = saves (-) SetToBag({r})
  /\ InvalidateQueries
  /\ IF r.orphan
     THEN UNCHANGED <<isDialogOpen, editingPanchayath, formData, openedWith>>
     ELSE /\ isDialogOpen' = FALSE
          /\ editingPanchayath' = Null
          /\ formData' = EmptyForm
          /\ openedWith' = NotOpen
  /\ \E t \in {SavedTitle(r.kind = "update")}
            \cup (IF r.orphan THEN {} ELSE {SavedTitle(editingPanchayath # Null)}) :
       toast' = t
  /\ lastSaved' = [name |-> r.name, district |-> r.district, dup |-> r.dup]
  /\ UNCHANGED <<permissions, mounted, backendVars, deletes, notif, unseen>>

\* An onError that gives up the form as onSuccess does.
SaveErrorClosesDialog(r) ==
  /\ AdminFrame
  /\ lastSaved' = NoSave
  /\ BagIn(r, saves)
  /\ r.phase = "sent"
  /\ saves' = saves (-) SetToBag({r})
  /\ openedWith' = NotOpen
  /\ toast' = "Operation Failed"
  /\ isDialogOpen' = FALSE
  /\ editingPanchayath' = Null
  /\ formData' = EmptyForm
  /\ UNCHANGED <<permissions, mounted, backendVars, queryVars, deletes, notif, unseen>>

\* The request fails (the backend or the network answers with an error,
\* nothing is written): savePanchayathMutation.onError.
SaveError(r) ==
  /\ AdminFrame
  /\ lastSaved' = NoSave
  /\ BagIn(r, saves)
  /\ r.phase = "sent"
  /\ saves' = saves (-) SetToBag({r})
  /\ toast' = "Operation Failed"
  /\ UNCHANGED <<permissions, openedWith, mounted, isDialogOpen, editingPanchayath, formData,
                 backendVars, queryVars, deletes, notif, unseen>>

\* deletePanchayathMutation.onSuccess.
DeleteSuccess(r) ==
  /\ AdminFrame
  /\ lastSaved' = NoSave
  /\ BagIn(r, deletes)
  /\ r.phase = "ok"
  /\ deletes' = deletes (-) SetToBag({r})
  /\ InvalidateQueries
  /\ toast' = "Panchayath Deleted"
  /\ UNCHANGED <<permissions, openedWith, mounted, isDialogOpen, editingPanchayath, formData,
                 backendVars, saves, notif, unseen>>

\* An onError that refreshes the list as onSuccess does.
DeleteErrorInvalidates(r) ==
  /\ AdminFrame
  /\ lastSaved' = NoSave
  /\ BagIn(r, deletes)
  /\ r.phase = "sent"
  /\ deletes' = deletes (-) SetToBag({r})
  /\ InvalidateQueries
  /\ toast' = "Delete Failed"
  /\ UNCHANGED <<permissions, openedWith, mounted, isDialogOpen, editingPanchayath, formData,
                 backendVars, saves, notif, unseen>>

\* The request fails (the foreign key, or any other error; nothing is
\* deleted): deletePanchayathMutation.onError.
DeleteError(r) ==
  /\ AdminFrame
  /\ lastSaved' = NoSave
  /\ BagIn(r, deletes)
  /\ r.phase = "sent"
  /\ deletes' = deletes (-) SetToBag({r})
  /\ toast' = "Delete Failed"
  /\ UNCHANGED <<permissions, openedWith, mounted, isDialogOpen, editingPanchayath, formData,
                 backendVars, queryVars, saves, notif, unseen>>

\* The query and the channel.
QueryNext ==
  \/ FetchRead
  \/ FetchSuccess
  \/ RealtimeEvent

\* The dialog and its form.
FormNext ==
  \/ AddClicked
  \/ \E p \in Range(panchayaths.rows) : handleEdit(p)
  \/ CloseDialog
  \/ \E v \in FormNames : NameTyped(v)
  \/ \E v \in FormDistricts : DistrictTyped(v)
  \/ handleSubmit

\* A save on its way: the backend, then the callback.
SaveNext ==
  \/ \E r \in BagToSet(saves) : BackendSave(r)
  \/ \E r \in BagToSet(saves) : SaveSuccess(r)
  \/ \E r \in BagToSet(saves) : SaveError(r)

\* A delete, from the button to the callback.
DeleteNext ==
  \/ \E id \in 1..MaxId, answer \in BOOLEAN : handleDelete(id, answer)
  \/ \E r \in BagToSet(deletes) : BackendDelete(r)
  \/ \E r \in BagToSet(deletes) : DeleteSuccess(r)
  \/ \E r \in BagToSet(deletes) : DeleteError(r)

-----------------------------------------------------------------------------
(* The specifications: each starts its own part and keeps the other parts at *)
(* rest.                                                                      *)

IdleShown == [shown |-> FALSE, pct |-> 0]

CatIdle ==
  /\ catTable = {} /\ catResp = <<>> /\ categories = Undefined
  /\ catStatus = "pending" /\ catFetch = "sent"

FeeIdle == actual_fee = 0 /\ offer_fee = 0 /\ discountShown = IdleShown

GrpIdle == grpInput = <<>> /\ grpAcc = <<>> /\ grpPos = 0

AdminIdle ==
  /\ permissions = [canWrite |-> FALSE, canDelete |-> FALSE]
  /\ mounted = FALSE /\ isDialogOpen = FALSE /\ editingPanchayath = Null
  /\ formData = EmptyForm /\ openedWith = NotOpen /\ toast = ""
  /\ table = {} /\ nextId = 1 /\ referenced = {} /\ remoteOps = 0
  /\ panchayaths = Undefined /\ qStatus = "pending" /\ qFetch = "idle"
  /\ qResp = <<>> /\ qInvalidated = FALSE
  /\ saves = EmptyBag /\ deletes = EmptyBag /\ notif = 0
  /\ unseen = FALSE /\ lastSaved = NoSave

InitCategories == CatInit /\ FeeIdle /\ GrpIdle /\ AdminIdle
InitDiscount == FeeInit /\ CatIdle /\ GrpIdle /\ AdminIdle
InitGrouping == GrpInit /\ CatIdle /\ FeeIdle /\ AdminIdle
Init == AdminInit /\ CatIdle /\ FeeIdle /\ GrpIdle

SpecCategories == InitCategories /\ [][CatNext]_vars
SpecDiscount == InitDiscount /\ [][FeeNext]_vars
SpecGrouping == InitGrouping /\ [][GrpNext]_vars

\* One mounted instance and its own requests; fetches may fail.
Next == QueryNext \/ FetchError \/ FormNext \/ SaveNext \/ DeleteNext
Spec == Init /\ [][Next]_vars

\* The same with other clients changing the table.
NextRemote == QueryNext \/ FetchError \/ FormNext \/ SaveNext \/ RemoteChange
SpecRemote == Init /\ [][NextRemote]_vars

\* An administrator with every permission on an empty table, the component
\* leaving the screen and coming back.
NextLifecycle == QueryNext \/ FormNext \/ SaveNext \/ DeleteNext \/ Unmount \/ Mount
InitLifecycle ==
  /\ Init
  /\ table = {}
  /\ permissions = [canWrite |-> TRUE, canDelete |-> TRUE]
SpecLifecycle == InitLifecycle /\ [][NextLifecycle]_vars

-----------------------------------------------------------------------------
(* C1: the category listing puts the categories with a priority name first, *)
(* in the priority list's order, every other category after them in the     *)
(* order it was fetched, and loses or invents no category.                  *)

Known(c) == \E k \in 1..Len(categoryOrder) : categoryOrder[k] = c.name

\* Position of a name in the priority list, one past the end when unknown.
PriorityPos(c) ==
  IF Known(c) THEN CHOOSE k \in 1..Len(categoryOrder) : categoryOrder[k] = c.name
  ELSE Len(categoryOrder) + 1

CatListed == catStatus = "success" /\ catFetch = "idle"

\* C1: the listing is a permutation of the fetched rows, ascending by
\* priority position, with the unknown names last in their fetched order.
C1_PriorityOrder ==
  CatListed =>
    LET out == categories.rows
    IN  /\ Len(out) = Len(catResp)
        /\ \A c \in Range(catResp) :
             Cardinality({i \in 1..Len(out) : out[i] = c})
               = Cardinality({i \in 1..Len(catResp) : catResp[i] = c})
        /\ \A i \in 1..Len(out) : \A j \in 1..Len(out) :
             i < j => PriorityPos(out[i]) <= PriorityPos(out[j])
        /\ SelectSeq(out, LAMBDA c : ~Known(c))
             = SelectSeq(catResp, LAMBDA c : ~Known(c))

\* A listing where the re-sort moved known names in front of an unknown one
\* and behind each other, with two unknown names kept in fetched order.
C1_Witness ==
  /\ CatListed
  /\ Len(categories.rows) = 6
  /\ categories.rows # catResp
  /\ categories.rows[1].name = "Pennyekart Free Registration"
  /\ categories.rows[2].name = "Farmelife"
  /\ categories.rows[5].name = "Agrilife"
  /\ categories.rows[6].name = "Zedlife"

-----------------------------------------------------------------------------
(* C2: the displayed discount percentage is the integer nearest to          *)
(* (actual_fee - offer_fee) / actual_fee * 100 (halves upwards) when        *)
(* actual_fee > 0, and 0 when actual_fee = 0; 100 and 40 give 60.           *)

-----------------------------------------------------------------------------
(* C10: grouping a fetched list (ordered by district, then name) gives one  *)
(* group per distinct district, every row in exactly the group of its own   *)
(* district, the groups displayed in ascending district order and the rows  *)
(* of a group in ascending name order.                                      *)

GrpDone == grpPos = Len(grpInput)

GrpShown == GroupDisplay(grpAcc)

C10_OneGroupPerDistrict ==
  GrpDone =>
    /\ \A i \in 1..Len(GrpShown) : \A j \in 1..Len(GrpShown) :
         GrpShown[i].district = GrpShown[j].district => i = j
    /\ {GrpShown[i].district : i \in 1..Len(GrpShown)}
         = {grpInput[i].district : i \in 1..Len(grpInput)}

C10_EveryRowInItsGroup ==
  GrpDone =>
    \A r \in 1..Len(grpInput) :
      Cardinality({<<g, k>> \in (1..Len(GrpShown)) \X (1..MaxGroupRows + 1) :
                     /\ k <= Len(GrpShown[g].rows)
                     /\ GrpShown[g].rows[k] = grpInput[r]
                     /\ GrpShown[g].district = grpInput[r].district}) = 1

C10_RowsByName ==
  GrpDone =>
    \A g \in 1..Len(GrpShown) :
      \A i \in 1..Len(GrpShown[g].rows) : \A j \in 1..Len(GrpShown[g].rows) :
        i < j => PNameRank(GrpShown[g].rows[i].name)
                   <= PNameRank(GrpShown[g].rows[j].name)

C10_GroupsAscending ==
  GrpDone =>
    \A i \in 1..Len(GrpShown) : \A j \in 1..Len(GrpShown) :
      i < j => DistrictRank(GrpShown[i].district) < DistrictRank(GrpShown[j].district)

\* C10: the claim as stated: one group per district, every row in its own
\* group, rows by name, groups in ascending district order.
C10_Grouping ==
  /\ C10_OneGroupPerDistrict
  /\ C10_EveryRowInItsGroup
  /\ C10_RowsByName
  /\ C10_GroupsAscending

-----------------------------------------------------------------------------
(* Requests leaving the bags of mutations in flight. *)

\* The success callback of request r runs in this step.
SaveDone(r) ==
  /\ r.phase = "ok"
  /\ BagCardinality(saves') < BagCardinality(saves)
  /\ CopiesIn(r, saves') < CopiesIn(r, saves)

DeleteDone(r) ==
  /\ r.phase = "ok"
  /\ BagCardinality(deletes') < BagCardinality(deletes)
  /\ CopiesIn(r, deletes') < CopiesIn(r, deletes)

\* The list on screen is the answer of a successful fetch and nothing since
\* has invalidated it or waits to.
Settled ==
  /\ mounted
  /\ notif = 0
  /\ qFetch = "idle"
  /\ qStatus = "success"
  /\ ~qInvalidated

-----------------------------------------------------------------------------
(* C3: every delete request that exists was issued with canDelete true and  *)
(* after the user accepted the confirmation prompt of that very click; no   *)
(* delete request is ever issued without the confirmation.                  *)

C3_DeleteNeedsConfirm ==
  /\ \A r \in BagToSet(deletes) : r.confirmed
  /\ ~permissions.canDelete => deletes = EmptyBag

\* A confirmed delete has been carried out by the backend.
C3_Witness ==
  /\ permissions.canDelete
  /\ \E r \in BagToSet(deletes) : r.phase = "ok" /\ r.confirmed
  /\ table = {}

-----------------------------------------------------------------------------
(* C4: without canWrite no insert or update request is ever in flight, the  *)
(* form dialog, the edit buttons and the category form are not rendered,    *)
(* and so the dialog never opens and nothing is ever picked for editing.    *)

C4_NoWriteWithoutPermission ==
  ~permissions.canWrite =>
    /\ saves = EmptyBag
    /\ ~DialogRendered
    /\ ~EditButtonsRendered
    /\ ~CategoryFormRendered
    /\ ~isDialogOpen
    /\ editingPanchayath = Null
    /\ formData = EmptyForm

\* An administrator who may delete but not write, looking at a loaded list
\* while a delete of theirs is in flight.
C4_Witness ==
  /\ ~permissions.canWrite
  /\ mounted
  /\ panchayaths.defined
  /\ Len(panchayaths.rows) = 1
  /\ deletes # EmptyBag

-----------------------------------------------------------------------------
(* C5 as stated: every successful save invalidates the list query, closes   *)
(* the form dialog, clears the editing selection and empties the form data; *)
(* every successful delete invalidates the list query.                      *)

C5_SuccessAlwaysResets ==
  [][ /\ \A r \in BagToSet(saves) :
           SaveDone(r) => /\ qInvalidated'
                          /\ ~isDialogOpen'
                          /\ editingPanchayath' = Null
                          /\ formData' = EmptyForm
      /\ \A r \in BagToSet(deletes) : DeleteDone(r) => qInvalidated' ]_vars

(* C5 amended: every successful save invalidates the list query; when the   *)
(* instance that submitted it is still mounted its dialog is closed, its    *)
(* editing selection cleared and its form data emptied, and when that       *)
(* instance is gone the dialog, selection and form data of a later instance *)
(* stay as they are; every successful delete invalidates the list query.    *)

C5_SuccessResetsOwnForm ==
  [][ /\ \A r \in BagToSet(saves) :
           SaveDone(r) =>
             /\ qInvalidated'
             /\ ~r.orphan => /\ ~isDialogOpen'
                             /\ editingPanchayath' = Null
                             /\ formData' = EmptyForm
             /\ r.orphan => UNCHANGED <<isDialogOpen, editingPanchayath, formData>>
      /\ \A r \in BagToSet(deletes) : DeleteDone(r) => qInvalidated' ]_vars

\* A save submitted by an instance that is gone has just succeeded while the
\* dialog of the next instance is open with a filled form.
C5_Witness ==
  /\ lastSaved # NoSave
  /\ qInvalidated
  /\ isDialogOpen
  /\ formData # EmptyForm

-----------------------------------------------------------------------------
(* C6 as stated: after a successful save of a form whose name and district  *)
(* no other row had when it was submitted, the dialog is closed and, once   *)
(* the re-fetch has completed and nothing else is in flight, the displayed  *)
(* list holds exactly one row with the saved name and district.             *)

SavedRows ==
  {i \in 1..Len(panchayaths.rows) :
     /\ panchayaths.rows[i].name = lastSaved.name
     /\ panchayaths.rows[i].district = lastSaved.district}

\* C6: after a successful save, dialog closed and exactly one such row in
\* the re-fetched list.
C6_ExactlyOnce ==
  (lastSaved # NoSave /\ ~lastSaved.dup /\ Settled /\ Inflight = 0) =>
    /\ ~isDialogOpen
    /\ Cardinality(SavedRows) = 1

-----------------------------------------------------------------------------
(* C7: a delete request for a row that a registration refers to never gets  *)
(* a successful answer; the step that issues it and the step that ends it   *)
(* leave the backend rows and the displayed list as they were, do not       *)
(* invalidate or re-fetch the list, and its end shows 'Delete Failed'.      *)

C7_RejectedDelete ==
  [][ /\ \A r \in BagToSet(deletes) :
           DeleteRejected(r.id) =>
             /\ r.phase = "sent"
             /\ CopiesIn(r, deletes') < CopiesIn(r, deletes) =>
                  /\ toast' = "Delete Failed"
                  /\ UNCHANGED <<table, panchayaths, qInvalidated, qFetch, qStatus>>
      /\ \A r \in BagToSet(deletes') :
           (DeleteRejected(r.id) /\ CopiesIn(r, deletes') > CopiesIn(r, deletes)) =>
             UNCHANGED <<table, panchayaths, qInvalidated, qFetch, qStatus>> ]_vars

\* The delete of the only row, which a registration refers to, has just
\* failed; the row is still in the table and on screen.
C7_Witness ==
  /\ toast = "Delete Failed"
  /\ referenced = {FirstRow.id}
  /\ nextId = 2
  /\ table = {FirstRow}
  /\ panchayaths.rows = <<FirstRow>>
  /\ deletes = EmptyBag

-----------------------------------------------------------------------------
(* C8: every local save success and every delivered change notification     *)
(* invalidates the list and starts a re-fetch, and whenever the list on     *)
(* screen is settled (last fetch successful, nothing invalidated, no        *)
(* notification waiting) it equals the backend's current rows.              *)

C8_Fresh ==
  Settled => /\ panchayaths.defined
             /\ panchayaths.rows \in Select(table)

-----------------------------------------------------------------------------
(* C9 as stated, for the admin list: a failed fetch shows the error state   *)
(* and neither the loading nor the empty state, and the empty state is      *)
(* shown only after a fetch that succeeded with zero rows.                  *)

C9_ThreeStates ==
  mounted =>
    /\ qStatus = "error" =>
         /\ AdminDisplay.error
         /\ ~AdminDisplay.empty
         /\ ~AdminDisplay.loading
    /\ AdminDisplay.empty =>
         /\ panchayaths.defined
         /\ Len(panchayaths.rows) = 0
         /\ qStatus = "success"

-----------------------------------------------------------------------------
(* C11: a submit adds exactly one request; it is an update if and only if   *)
(* an editing selection is active when the form is submitted, the update    *)
(* aims at the selected row's id and carries the form fields and a fresh    *)
(* updated_at, and otherwise it is an insert carrying the form fields only; *)
(* the backend changes only the aimed row, or adds exactly one row.         *)

\* Request r is issued in this step.
SaveIssued(r) ==
  /\ BagCardinality(saves') > BagCardinality(saves)
  /\ CopiesIn(r, saves') > CopiesIn(r, saves)

\* The backend carries out request r in this step.
SaveCarriedOut(r) ==
  /\ r.phase = "sent"
  /\ BagCardinality(saves') = BagCardinality(saves)
  /\ CopiesIn(r, saves') < CopiesIn(r, saves)

C11_UpdateIffEditing ==
  [][ /\ \A r \in BagToSet(saves') :
           SaveIssued(r) =>
             /\ BagCardinality(saves') = BagCardinality(saves) + 1
             /\ r.phase = "sent"
             /\ r.kind \in {"update", "insert"}
             /\ r.kind = "update" <=> editingPanchayath # Null
             /\ r.name = formData.name
             /\ r.district = formData.district
             /\ r.kind = "update" => (r.id = editingPanchayath.id /\ r.updated_at = "now")
             /\ r.kind = "insert" => r.updated_at = ""
      /\ \A r \in BagToSet(saves) :
           SaveCarriedOut(r) =>
             IF r.kind = "update"
             THEN /\ Ids(table') = Ids(table)
                  /\ \A row \in table : row.id # r.id => row \in table'
                  /\ \A row \in table' :
                       row.id = r.id => (row.name = r.name /\ row.district = r.district)
             ELSE /\ table \subseteq table'
                  /\ Cardinality(table') = Cardinality(table) + 1
                  /\ \A row \in table' \ table :
                       row.name = r.name /\ row.district = r.district ]_vars

\* The update of an edited row (B renamed A) has been carried out.
C11_Witness ==
  /\ \E r \in BagToSet(saves) :
       /\ r.kind = "update" /\ r.phase = "ok"
       /\ r.id = FirstRow.id /\ r.name = "A" /\ r.updated_at = "now"
  /\ [FirstRow EXCEPT !.name = "A"] \in table

-----------------------------------------------------------------------------
(* C12: the step in which a save fails raises the 'Operation Failed'        *)
(* notification, takes that one request out of flight without issuing       *)
(* another, and leaves the list query (data, status, fetch, invalidation),  *)
(* the backend rows, the dialog flag, the editing selection and the form    *)
(* data as they were; the cached list changes only when a fetch answers.    *)

\* Request r fails in this step.
SaveFailed(r) ==
  /\ r.phase = "sent"
  /\ BagCardinality(saves') < BagCardinality(saves)
  /\ CopiesIn(r, saves') < CopiesIn(r, saves)

C12_SaveFailureFrame ==
  [][ /\ \A r \in BagToSet(saves) :
           SaveFailed(r) =>
             /\ toast' = "Operation Failed"
             /\ saves' = saves (-) SetToBag({r})
             /\ UNCHANGED <<isDialogOpen, editingPanchayath, formData>>
             /\ UNCHANGED <<panchayaths, qStatus, qFetch, qResp, qInvalidated>>
             /\ UNCHANGED <<table, nextId, deletes>>
      /\ panchayaths' # panchayaths =>
           /\ qFetch = "read"
           /\ qFetch' = "idle"
           /\ panchayaths' = Data(qResp) ]_vars

\* The update of the row being edited has just failed: the dialog is still
\* open on that row with the typed name.
C12_Witness ==
  /\ toast = "Operation Failed"
  /\ isDialogOpen
  /\ editingPanchayath = FirstRow
  /\ formData = [name |-> "A", district |-> "Idukki"]
  /\ table = {FirstRow}
  /\ panchayaths.rows = <<FirstRow>>
  /\ saves = EmptyBag

-----------------------------------------------------------------------------
(* C13 as stated, for the public category list: a change of the table made  *)
(* while the page is shown invalidates its list query, so a list shown with *)
(* no fetch running is never older than the table: its rows are the active  *)
(* categories.                                                              *)

C13_CategoryListFollowsTable ==
  CatListed =>
    {categories.rows[i].name : i \in 1..Len(categories.rows)} = catTable

-----------------------------------------------------------------------------
(* C14: while the dialog is open its mode is the one it was last opened in: *)
(* opened with 'Add Panchayath', the editing selection is null, the form    *)
(* started blank and a submit issues an insert; opened with Edit on row r,  *)
(* the editing selection is r, the form started with r's name and district  *)
(* and a submit issues an update of r.                                      *)

C14_ModeMatchesOpening ==
  /\ [](isDialogOpen =>
          \/ openedWith.by = "add" /\ editingPanchayath = Null
          \/ /\ openedWith.by = "edit"
             /\ openedWith.row # Null
             /\ editingPanchayath = openedWith.row)
  /\ [][ (~isDialogOpen /\ isDialogOpen') =>
            IF openedWith'.by = "add"
            THEN formData' = EmptyForm
            ELSE /\ openedWith'.by = "edit"
                 /\ formData' = [name     |-> openedWith'.row.name,
                                  district |-> openedWith'.row.district] ]_vars
  /\ [][ \A r \in BagToSet(saves') :
            SaveIssued(r) =>
              /\ openedWith.by \in {"add", "edit"}
              /\ openedWith.by = "add" => r.kind = "insert"
              /\ openedWith.by = "edit" =>
                   (r.kind = "update" /\ r.id = openedWith.row.id) ]_vars

\* An edit was submitted and its dialog closed by hand; the dialog is now
\* open from 'Add Panchayath' with a typed form while that update is still
\* in flight.
C14_Witness ==
  /\ isDialogOpen
  /\ openedWith.by = "add"
  /\ editingPanchayath = Null
  /\ formData = [name |-> "A", district |-> "Idukki"]
  /\ \E r \in BagToSet(saves) : r.kind = "update" /\ r.id = FirstRow.id

=============================================================================
